---------------------------- MODULE Spec2Model ----------------------------
(***************************************************************************)
(* The subscription core of the NATS C client (src/src/sub.c): one         *)
(* subscription, its message list, its delivery worker, its signal timer,  *)
(* the callers of NextMsg, the user thread (NoDeliveryDelay, Unsubscribe,  *)
(* AutoUnsubscribe, Destroy) and the connection's reader thread.           *)
(*                                                                         *)
(* Every natsSub_Lock is a step of its own (the thread becomes the holder  *)
(* of mu); the critical section that follows, up to the unlock or to the   *)
(* condition wait, is the next step.                                       *)
(***************************************************************************)
EXTENDS Integers, Sequences, FiniteSets, TLC

\* ------------------------------------------------------------------ bounds
MaxMsgs == 3
MaxPending == 3
MaxCap == 1
NCallers == 1
\* delivered is capped: a failing NextMsg can increment it without end.
MaxDelivered == MaxMsgs + 1

\* ------------------------------------------------------- program constants
IdleInterval == 10000
SignalFailLimit == 10
ShortInterval == 1

NULL == 0
\* nc->opts->maxPendingMsgs
PendingChoices == 1..MaxPending
Msgs == 1..MaxMsgs
Callers == 1..NCallers

\* Thread identities, as values of mu (0: the mutex is free).
NoThread == 0
ReaderT == NCallers + 1
WorkerT == NCallers + 2
TimerT == NCallers + 3
UserT == NCallers + 4

VARIABLES
    created,              \* "no" | "ok" | "failed": outcome of natsSub_create
    msgCb,                \* TRUE iff a handler is registered (sub->msgCb != NULL)
    refs,                 \* sub->refs
    msgList,              \* sub->msgList: [head, tail, count]
    next,                 \* msg->next of every message
    delivered,            \* sub->delivered
    max,                  \* sub->max
    pendingMax,           \* sub->pendingMax
    signalLimit,          \* sub->signalLimit
    noDelay,              \* sub->noDelay
    inWait,               \* sub->inWait
    slowConsumer,         \* sub->slowConsumer
    closed,               \* sub->closed
    connClosed,           \* sub->connClosed
    signalTimer,          \* "null" | "active" | "stopping" | "stopped"
    signalTimerInterval,  \* sub->signalTimerInterval
    signalFailCount,      \* sub->signalFailCount
    mu,                   \* holder of sub->mu, NoThread when free
    freed,                \* number of runs of _freeSubscription
    registered,           \* the connection's registry still holds the subscription
    wpc,                  \* delivery worker: position in natsSub_deliverMsgs
    wloc,                 \* delivery worker locals: [delivered, max, msg]
    tpc,                  \* timer executor: position in the timer callbacks
    rpc,                  \* reader thread: position
    handed,               \* number of messages the reader handed to enqueue so far
    cpc,                  \* NextMsg callers: position
    cloc,                 \* NextMsg callers' locals: [s, timeout, removeSub]
    cres,                 \* NextMsg callers: [status, msg] of the last returned call
    upc,                  \* user thread: position
    uloc,                 \* user thread locals: [max, destroy]
    accepted,             \* history: messages appended by enqueue
    overflowed,           \* history: an enqueue was rejected for overflow since the last SLOW_CONSUMER return
    log,                  \* history: messages handed to the consumer, in order
    arming,               \* history: "never" | "early" | "late" | "again", see Arm
    ures,                 \* history: status the last _unsubscribe call returned
    removals              \* history: number of natsConn_unsubscribe(nc, sub, 0) calls

subVars == <<msgCb, refs, msgList, next, delivered, max, pendingMax, signalLimit,
             noDelay, inWait, slowConsumer, closed, connClosed, signalTimer,
             signalTimerInterval, signalFailCount, freed, registered>>
thrVars == <<created, mu, wpc, wloc, tpc, rpc, handed, cpc, cloc, cres, upc, uloc>>
histVars == <<accepted, overflowed, log, arming, ures, removals>>
vars == <<subVars, thrVars, histVars>>

EmptyList == [head |-> NULL, tail |-> NULL, count |-> 0]
NoLoc == [delivered |-> 0, max |-> 0, msg |-> NULL]
NoCall == [s |-> "OK", timeout |-> 0, removeSub |-> FALSE]
NoRes == [status |-> "none", msg |-> NULL]
NoUser == [max |-> 0, destroy |-> FALSE]

\* ------------------------------------------------------------ natsSub_create
\* The points of natsSub_create that can fail after the mutex exists.
FailPoints == {"none", "subject", "queue", "cond", "timer", "thread"}

\* sub->signalLimit = (int)(sub->pendingMax * 0.75)
SignalLimitOf(pm) == (pm * 3) \div 4

\* The timer is created iff every earlier step succeeded and !noDelay.
TimerAttempted(nd, fail) == fail \notin {"subject", "queue", "cond"} /\ ~nd
TimerCreated(nd, fail) == TimerAttempted(nd, fail) /\ fail # "timer"
\* The worker thread is created iff every earlier step succeeded and cb != NULL.
ThreadAttempted(cb, nd, fail) ==
    /\ fail \notin {"subject", "queue", "cond"}
    /\ ~(TimerAttempted(nd, fail) /\ fail = "timer")
    /\ cb
ThreadCreated(cb, nd, fail) == ThreadAttempted(cb, nd, fail) /\ fail # "thread"
CreateOk(cb, nd, fail) ==
    \/ fail = "none"
    \/ fail = "timer" /\ ~TimerAttempted(nd, fail)
    \/ fail = "thread" /\ ~ThreadAttempted(cb, nd, fail)

\* refs when natsSub_create reaches line 304: 1, plus one per helper that
\* was retained for and not released again (lines 281-288, 294-301).
RefsAfterHelpers(cb, nd, fail) ==
    1 + (IF TimerCreated(nd, fail) THEN 1 ELSE 0)
      + (IF ThreadCreated(cb, nd, fail) THEN 1 ELSE 0)

\* refs when natsSub_create returns: on failure natsSub_release(sub) ran.
RefsAfterCreate(cb, nd, fail) ==
    IF CreateOk(cb, nd, fail) THEN RefsAfterHelpers(cb, nd, fail)
    ELSE RefsAfterHelpers(cb, nd, fail) - 1

Create(cb, nd, pm, fail) ==
    /\ created = "no"
    /\ created' = IF CreateOk(cb, nd, fail) THEN "ok" ELSE "failed"
    /\ msgCb' = cb
    /\ noDelay' = nd
    /\ pendingMax' = pm
    /\ signalLimit' = SignalLimitOf(pm)
    /\ refs' = RefsAfterCreate(cb, nd, fail)
    /\ freed' = IF RefsAfterCreate(cb, nd, fail) = 0 THEN freed + 1 ELSE freed
    /\ signalTimer' = IF TimerCreated(nd, fail) THEN "active" ELSE "null"
    /\ signalTimerInterval' = IF TimerAttempted(nd, fail) THEN IdleInterval ELSE 0
    /\ wpc' = IF ThreadCreated(cb, nd, fail) THEN "lock" ELSE "none"
    /\ registered' = CreateOk(cb, nd, fail)
    /\ UNCHANGED <<msgList, next, delivered, max, inWait, slowConsumer, closed,
                   connClosed, signalFailCount, mu, wloc, tpc, rpc, handed, cpc,
                   cloc, cres, upc, uloc, histVars>>

Init ==
    /\ created = "no"
    /\ msgCb = FALSE
    /\ refs = 0
    /\ msgList = EmptyList
    /\ next = [m \in Msgs |-> NULL]
    /\ delivered = 0
    /\ max = 0
    /\ pendingMax = 0
    /\ signalLimit = 0
    /\ noDelay = FALSE
    /\ inWait = 0
    /\ slowConsumer = FALSE
    /\ closed = FALSE
    /\ connClosed = FALSE
    /\ signalTimer = "null"
    /\ signalTimerInterval = 0
    /\ signalFailCount = 0
    /\ mu = NoThread
    /\ freed = 0
    /\ registered = FALSE
    /\ wpc = "none"
    /\ wloc = NoLoc
    /\ tpc = "idle"
    /\ rpc = "idle"
    /\ handed = 0
    /\ cpc = [c \in Callers |-> "idle"]
    /\ cloc = [c \in Callers |-> NoCall]
    /\ cres = [c \in Callers |-> NoRes]
    /\ upc = "idle"
    /\ uloc = NoUser
    /\ accepted = {}
    /\ overflowed = FALSE
    /\ log = <<>>
    /\ arming = "never"
    /\ ures = "none"
    /\ removals = 0


\* ------------------------------------------------- condition and timer
\* natsCondition_Broadcast: every thread blocked in the wait is woken and
\* has to take the mutex again.
WakeWorker(p) == IF p = "wait" THEN "woken" ELSE p
WakeCallers(cp) == [c \in Callers |-> IF cp[c] = "wait" THEN "woken" ELSE cp[c]]

\* natsTimer_Stop: an active timer is stopped and its stop callback becomes
\* due on the timer executor; stopping a stopped timer does nothing.
TimerStop(t) == IF t = "active" THEN "stopping" ELSE t

\* ----------------------------------------------------------- message list
\* Append at the tail (enqueue).
AppendMsg(ml, m) ==
    [head |-> IF ml.head = NULL THEN m ELSE ml.head,
     tail |-> m,
     count |-> ml.count + 1]
AppendNext(ml, nx, m) ==
    IF ml.tail = NULL THEN nx ELSE [nx EXCEPT ![ml.tail] = m]

\* Mutant: the pop hands out the tail.
HeadMsgTail(ml) == ml.tail

\* msg = sub->msgList.head: the message a pop hands out.
HeadMsg(ml) == ml.head

\* Mutant: the pop of the last message leaves tail as it is.
PopMsgKeepTail(ml, nx) ==
    [head |-> nx[ml.head], tail |-> ml.tail, count |-> ml.count - 1]

\* Pop the head: sub.c lines 133-138 (worker) and 501-506 (NextMsg).
PopMsg(ml, nx) ==
    [head |-> nx[ml.head],
     tail |-> IF ml.tail = ml.head THEN NULL ELSE ml.tail,
     count |-> ml.count - 1]
\* msg->next = NULL
PopNext(ml, nx) == [nx EXCEPT ![ml.head] = NULL]

\* The messages reachable from node m by next pointers, in order.
RECURSIVE Chain(_, _, _)
Chain(nx, m, fuel) ==
    IF m = NULL \/ fuel = 0 THEN <<>> ELSE <<m>> \o Chain(nx, nx[m], fuel - 1)
Queue == Chain(next, msgList.head, MaxMsgs + 1)

\* --------------------------------------------------- natsSub_release/close
\* refs = --(sub->refs)
ReleaseRefs(r) == r - 1
\* if (refs == 0) _freeSubscription(sub)
FreedAfterRelease(r, f) == IF ReleaseRefs(r) = 0 THEN f + 1 ELSE f

\* sub->connClosed = connectionClosed
CloseConnClosed(old, connectionClosed) == connectionClosed
\* if (sub->signalTimer != NULL) natsTimer_Stop(sub->signalTimer)
CloseTimer(t) == IF t # "null" THEN TimerStop(t) ELSE t

\* The critical section of natsSub_close run by a thread whose own next
\* positions are already set in wp and cp.
CloseBody(connectionClosed, wp, cp) ==
    /\ signalTimer' = CloseTimer(signalTimer)
    /\ closed' = TRUE
    /\ connClosed' = CloseConnClosed(connClosed, connectionClosed)
    /\ wpc' = WakeWorker(wp)
    /\ cpc' = WakeCallers(cp)
    /\ mu' = NoThread

\* The connection's removeSubscription: marks the subscription closed (not
\* for connection closure) and takes it out of the registry.
RemoveSubscription(wp, cp) ==
    /\ CloseBody(FALSE, wp, cp)
    /\ registered' = FALSE

\* ------------------------------------------------------------ reader thread
\* The signal policy of enqueue after an append that made the count n.
EnqueueSignals(n) == noDelay \/ n >= signalLimit \/ (inWait > 0 /\ n = 1)

EnqueueRejectsClosed == closed
\* Mutant: the bound is tested off by one.
EnqueueRejectsOver == ~closed /\ msgList.count > pendingMax
EnqueueRejectsFull == ~closed /\ msgList.count >= pendingMax

RLock ==
    /\ rpc = "idle" /\ created = "ok" /\ freed = 0 /\ handed < MaxMsgs
    /\ mu = NoThread
    /\ mu' = ReaderT
    /\ rpc' = "enqueue"
    /\ UNCHANGED <<subVars, created, wpc, wloc, tpc, handed, cpc, cloc, cres,
                   upc, uloc, histVars>>

REnqueue ==
    /\ rpc = "enqueue"
    /\ LET m == handed + 1 IN
       /\ handed' = m
       /\ IF EnqueueRejectsClosed
          THEN UNCHANGED <<msgList, next, slowConsumer, overflowed, accepted,
                           wpc, cpc, signalTimerInterval>>
          ELSE IF EnqueueRejectsFull
          THEN /\ slowConsumer' = TRUE
               /\ overflowed' = TRUE
               /\ UNCHANGED <<msgList, next, accepted, wpc, cpc, signalTimerInterval>>
          ELSE /\ msgList' = AppendMsg(msgList, m)
               /\ next' = AppendNext(msgList, next, m)
               /\ accepted' = accepted \cup {m}
               /\ IF EnqueueSignals(msgList.count + 1)
                  THEN /\ wpc' = WakeWorker(wpc)
                       /\ cpc' = WakeCallers(cpc)
                       /\ UNCHANGED signalTimerInterval
                  ELSE /\ signalTimerInterval' =
                            IF signalTimerInterval = IdleInterval
                            THEN ShortInterval ELSE signalTimerInterval
                       /\ UNCHANGED <<wpc, cpc>>
               /\ UNCHANGED <<slowConsumer, overflowed>>
    /\ mu' = NoThread
    /\ rpc' = "idle"
    /\ UNCHANGED <<msgCb, refs, delivered, max, pendingMax, signalLimit, noDelay,
                   inWait, closed, connClosed, signalTimer, signalFailCount, freed,
                   registered, created, wloc, tpc, cloc, cres, upc, uloc,
                   log, arming, ures, removals>>

\* The connection closes: natsSub_close(sub, true) on a registered subscription.
RCloseLock ==
    /\ rpc = "idle" /\ created = "ok" /\ freed = 0 /\ registered
    /\ mu = NoThread
    /\ mu' = ReaderT
    /\ rpc' = "connclose"
    /\ UNCHANGED <<subVars, created, wpc, wloc, tpc, handed, cpc, cloc, cres,
                   upc, uloc, histVars>>

RConnClose ==
    /\ rpc = "connclose"
    /\ CloseBody(TRUE, wpc, cpc)
    /\ registered' = FALSE
    /\ rpc' = "done"
    /\ UNCHANGED <<msgCb, refs, msgList, next, delivered, max, pendingMax,
                   signalLimit, noDelay, inWait, slowConsumer, signalTimerInterval,
                   signalFailCount, freed, created, wloc, tpc, handed, cloc, cres,
                   upc, uloc, histVars>>

\* ----------------------------------------------------------- signal timer
\* _signalMsgAvailable, natsMutex_TryLock succeeds.
TFireLock ==
    /\ signalTimer = "active" /\ tpc = "idle"
    /\ mu = NoThread
    /\ mu' = TimerT
    /\ tpc' = "locked"
    /\ UNCHANGED <<subVars, created, wpc, wloc, rpc, handed, cpc, cloc, cres,
                   upc, uloc, histVars>>

\* Mutant: the limit is never recognised.
FailCountNever(n) == FALSE

\* ++(sub->signalFailCount) == 10
FailCountReached(n) == n + 1 = SignalFailLimit

\* _signalMsgAvailable, natsMutex_TryLock fails.
TFireFail ==
    /\ signalTimer = "active" /\ tpc = "idle"
    /\ mu # NoThread
    /\ IF FailCountReached(signalFailCount)
       THEN /\ signalFailCount' = 0
            /\ tpc' = "block"
       ELSE /\ signalFailCount' = signalFailCount + 1
            /\ UNCHANGED tpc
    /\ UNCHANGED <<msgCb, refs, msgList, next, delivered, max, pendingMax,
                   signalLimit, noDelay, inWait, slowConsumer, closed, connClosed,
                   signalTimer, signalTimerInterval, freed, registered, created,
                   mu, wpc, wloc, rpc, handed, cpc, cloc, cres, upc, uloc, histVars>>

\* natsSub_Lock(sub) after the tenth failure.
TBlockLock ==
    /\ tpc = "block"
    /\ mu = NoThread
    /\ mu' = TimerT
    /\ tpc' = "locked"
    /\ UNCHANGED <<subVars, created, wpc, wloc, rpc, handed, cpc, cloc, cres,
                   upc, uloc, histVars>>

\* _signalMsgAvailable with the lock: lines 194-206.
TSignal ==
    /\ tpc = "locked"
    /\ IF msgList.count = 0
       THEN /\ signalTimerInterval' = IdleInterval
            /\ UNCHANGED <<wpc, cpc>>
       ELSE IF inWait > 0
       THEN /\ wpc' = WakeWorker(wpc)
            /\ cpc' = WakeCallers(cpc)
            /\ UNCHANGED signalTimerInterval
       ELSE UNCHANGED <<wpc, cpc, signalTimerInterval>>
    /\ mu' = NoThread
    /\ tpc' = "idle"
    /\ UNCHANGED <<msgCb, refs, msgList, next, delivered, max, pendingMax,
                   signalLimit, noDelay, inWait, slowConsumer, closed, connClosed,
                   signalTimer, signalFailCount, freed, registered, created,
                   wloc, rpc, handed, cloc, cres, upc, uloc, histVars>>

\* _signalTimerStopped: natsSub_release(sub), its lock.
TStopLock ==
    /\ signalTimer = "stopping" /\ tpc = "idle"
    /\ mu = NoThread
    /\ mu' = TimerT
    /\ tpc' = "release"
    /\ UNCHANGED <<subVars, created, wpc, wloc, rpc, handed, cpc, cloc, cres,
                   upc, uloc, histVars>>

TStopped ==
    /\ tpc = "release"
    /\ refs' = ReleaseRefs(refs)
    /\ freed' = FreedAfterRelease(refs, freed)
    /\ signalTimer' = "stopped"
    /\ mu' = NoThread
    /\ tpc' = "idle"
    /\ UNCHANGED <<msgCb, msgList, next, delivered, max, pendingMax, signalLimit,
                   noDelay, inWait, slowConsumer, closed, connClosed,
                   signalTimerInterval, signalFailCount, registered, created,
                   wpc, wloc, rpc, handed, cpc, cloc, cres, upc, uloc, histVars>>

\* ---------------------------------------------------------- delivery worker
WLock ==
    /\ wpc = "lock"
    /\ mu = NoThread
    /\ mu' = WorkerT
    /\ wpc' = "crit"
    /\ UNCHANGED <<subVars, created, wloc, tpc, rpc, handed, cpc, cloc, cres,
                   upc, uloc, histVars>>

\* Mutant: the worker waits whatever the count.
WorkerWaitsAnyCount == ~closed

\* while ((sub->msgList.count == 0) && !(sub->closed)) natsCondition_Wait(...)
WorkerWaits == msgList.count = 0 /\ ~closed

\* Mutant: the handler is invoked whatever the cap.
WorkerInvokesAlways(loc) == TRUE

\* if ((max == 0) || (delivered <= max)) (*mcb)(nc, sub, msg, mcbClosure)
WorkerInvokes(loc) == loc.max = 0 \/ loc.delivered <= loc.max

\* if ((max > 0) && (delivered >= max)) natsConn_removeSubscription(...)
WorkerRemoves(loc) == loc.max > 0 /\ loc.delivered >= loc.max

\* Mutant: the worker does not look at closed after the wait.
WorkerExitsNever == FALSE

\* Line 116: if (sub->closed) the worker leaves its loop.
WorkerExits == closed

\* Mutant: the mutex is kept across the handler.
UnlockAfterPopMissing == WorkerT

\* Line 145: natsSub_Unlock(sub) after the pop, before the handler.
UnlockAfterPop == NoThread

\* Lines 114-145 of natsSub_deliverMsgs, the wait loop left with inWait = iw.
WorkerAfterWait(iw) ==
    /\ inWait' = iw
    /\ mu' = IF ~WorkerExits /\ msgList.head # NULL THEN UnlockAfterPop ELSE NoThread
    /\ IF WorkerExits
       THEN /\ wpc' = "release_lock"
            /\ UNCHANGED <<delivered, msgList, next, wloc>>
       ELSE IF msgList.head = NULL
       THEN /\ wpc' = "lock"
            /\ UNCHANGED <<delivered, msgList, next, wloc>>
       ELSE /\ delivered' = delivered + 1
            /\ msgList' = PopMsg(msgList, next)
            /\ next' = PopNext(msgList, next)
            /\ wloc' = [delivered |-> delivered + 1, max |-> max,
                        msg |-> HeadMsg(msgList)]
            /\ wpc' = "deliver"

\* The worker blocks in natsCondition_Wait, which releases the mutex.
WorkerBlocks(iw) ==
    /\ inWait' = iw
    /\ mu' = NoThread
    /\ wpc' = "wait"
    /\ UNCHANGED <<delivered, msgList, next, wloc>>

WCrit ==
    /\ wpc = "crit"
    /\ IF WorkerWaits THEN WorkerBlocks(inWait + 1) ELSE WorkerAfterWait(inWait)
    /\ UNCHANGED <<msgCb, refs, max, pendingMax, signalLimit, noDelay,
                   slowConsumer, closed, connClosed, signalTimer,
                   signalTimerInterval, signalFailCount, freed, registered,
                   created, tpc, rpc, handed, cpc, cloc, cres, upc, uloc, histVars>>

\* natsCondition_Wait returns: the mutex is taken again.
WWakeLock ==
    /\ wpc = "woken"
    /\ mu = NoThread
    /\ mu' = WorkerT
    /\ wpc' = "recheck"
    /\ UNCHANGED <<subVars, created, wloc, tpc, rpc, handed, cpc, cloc, cres,
                   upc, uloc, histVars>>

WRecheck ==
    /\ wpc = "recheck"
    /\ IF WorkerWaits THEN WorkerBlocks(inWait) ELSE WorkerAfterWait(inWait - 1)
    /\ UNCHANGED <<msgCb, refs, max, pendingMax, signalLimit, noDelay,
                   slowConsumer, closed, connClosed, signalTimer,
                   signalTimerInterval, signalFailCount, freed, registered,
                   created, tpc, rpc, handed, cpc, cloc, cres, upc, uloc, histVars>>

\* Line 147-150: the handler is invoked, or skipped beyond the cap.
WDeliver ==
    /\ wpc = "deliver"
    /\ IF WorkerInvokes(wloc)
       THEN /\ wpc' = "handler"
            /\ log' = Append(log, wloc.msg)
       ELSE /\ wpc' = IF WorkerRemoves(wloc) THEN "remove_lock" ELSE "lock"
            /\ UNCHANGED log
    /\ wloc' = IF WorkerInvokes(wloc) THEN wloc ELSE NoLoc
    /\ UNCHANGED <<subVars, created, mu, tpc, rpc, handed, cpc, cloc, cres,
                   upc, uloc, accepted, overflowed, arming, ures, removals>>

\* The handler returns; lines 154-159.
WHandlerReturn ==
    /\ wpc = "handler"
    /\ wpc' = IF WorkerRemoves(wloc) THEN "remove_lock" ELSE "lock"
    /\ wloc' = NoLoc
    /\ UNCHANGED <<subVars, created, mu, tpc, rpc, handed, cpc, cloc, cres,
                   upc, uloc, histVars>>

\* natsConn_removeSubscription(nc, sub, true) from the worker.
WRemoveLock ==
    /\ wpc = "remove_lock"
    /\ mu = NoThread
    /\ mu' = WorkerT
    /\ wpc' = "remove"
    /\ UNCHANGED <<subVars, created, wloc, tpc, rpc, handed, cpc, cloc, cres,
                   upc, uloc, histVars>>

WRemove ==
    /\ wpc = "remove"
    /\ RemoveSubscription("release_lock", cpc)
    /\ UNCHANGED <<msgCb, refs, msgList, next, delivered, max, pendingMax,
                   signalLimit, noDelay, inWait, slowConsumer, signalTimerInterval,
                   signalFailCount, freed, created, wloc, tpc, rpc, handed, cloc,
                   cres, upc, uloc, histVars>>

\* Line 162: natsSub_release(sub), the worker's reference.
WReleaseLock ==
    /\ wpc = "release_lock"
    /\ mu = NoThread
    /\ mu' = WorkerT
    /\ wpc' = "release"
    /\ UNCHANGED <<subVars, created, wloc, tpc, rpc, handed, cpc, cloc, cres,
                   upc, uloc, histVars>>

WRelease ==
    /\ wpc = "release"
    /\ refs' = ReleaseRefs(refs)
    /\ freed' = FreedAfterRelease(refs, freed)
    /\ mu' = NoThread
    /\ wpc' = "done"
    /\ UNCHANGED <<msgCb, msgList, next, delivered, max, pendingMax, signalLimit,
                   noDelay, inWait, slowConsumer, closed, connClosed, signalTimer,
                   signalTimerInterval, signalFailCount, registered, created,
                   wloc, tpc, rpc, handed, cpc, cloc, cres, upc, uloc, histVars>>

\* ------------------------------------------------- natsSubscription_NextMsg
Timeouts == {0, 1}

\* Mutant: the handler is checked before closed.
NextMsgPrecheckHandlerFirst ==
    IF connClosed THEN "CONNECTION_CLOSED"
    ELSE IF msgCb THEN "ILLEGAL_STATE"
    ELSE IF closed
    THEN (IF max > 0 /\ delivered >= max
          THEN "MAX_DELIVERED_MSGS" ELSE "INVALID_SUBSCRIPTION")
    ELSE IF slowConsumer THEN "SLOW_CONSUMER"
    ELSE "OK"

\* Lines 425-454: the error of the first failing precondition, "OK" if none.
NextMsgPrecheck ==
    IF connClosed THEN "CONNECTION_CLOSED"
    ELSE IF closed
    THEN (IF max > 0 /\ delivered >= max
          THEN "MAX_DELIVERED_MSGS" ELSE "INVALID_SUBSCRIPTION")
    ELSE IF msgCb THEN "ILLEGAL_STATE"
    ELSE IF slowConsumer THEN "SLOW_CONSUMER"
    ELSE "OK"

\* Mutant: the flag is not cleared.
SlowKept(err) == slowConsumer

\* sub->slowConsumer = false, on the SLOW_CONSUMER return only.
SlowAfterCheck(err) == IF err = "SLOW_CONSUMER" THEN FALSE ELSE slowConsumer

\* while ((count == 0) && (s != NATS_TIMEOUT) && !(sub->closed))
CallerWaits(s) == msgList.count = 0 /\ s # "TIMEOUT" /\ ~closed

\* Lines 476-477: if (sub->closed) s = NATS_INVALID_SUBSCRIPTION
AfterWaitStatus(s) == IF closed THEN "INVALID_SUBSCRIPTION" ELSE s

\* Mutant: without a wait the call reports TIMEOUT whatever the count.
NoWaitStatusAlways == "TIMEOUT"

\* Line 481: s = (sub->msgList.count == 0 ? NATS_TIMEOUT : NATS_OK)
NoWaitStatus == IF msgList.count = 0 THEN "TIMEOUT" ELSE "OK"

\* Lines 486-496: the status after the delivered/max accounting.
MaxStatus(s, d) ==
    IF s = "OK" /\ max > 0 /\ d > max THEN "MAX_DELIVERED_MSGS" ELSE s
RemoveSubAt(s, d) == s = "OK" /\ max > 0 /\ d = max

\* The caller is called by a thread that holds a valid pointer: Destroy has
\* not been called.
PointerValid == created = "ok" /\ ~uloc.destroy /\ upc # "done"

NLock(c, t) ==
    /\ cpc[c] = "idle" /\ PointerValid /\ delivered < MaxDelivered
    /\ mu = NoThread
    /\ mu' = c
    /\ cpc' = [cpc EXCEPT ![c] = "check"]
    /\ cloc' = [cloc EXCEPT ![c] = [s |-> "OK", timeout |-> t, removeSub |-> FALSE]]
    /\ cres' = [cres EXCEPT ![c] = NoRes]
    /\ UNCHANGED <<subVars, created, wpc, wloc, tpc, rpc, handed, upc, uloc,
                   histVars>>

\* The call returns an error from the precondition checks.
NFail(c, err) ==
    /\ slowConsumer' = SlowAfterCheck(err)
    /\ overflowed' = IF err = "SLOW_CONSUMER" THEN FALSE ELSE overflowed
    /\ cres' = [cres EXCEPT ![c] = [status |-> err, msg |-> NULL]]
    /\ cpc' = [cpc EXCEPT ![c] = "idle"]
    /\ cloc' = [cloc EXCEPT ![c] = NoCall]
    /\ mu' = NoThread
    /\ UNCHANGED <<inWait, delivered, msgList, next, log>>

\* The call blocks in natsCondition_AbsoluteTimedWait, which releases the mutex.
NBlocks(c, iw) ==
    /\ inWait' = iw
    /\ cpc' = [cpc EXCEPT ![c] = "wait"]
    /\ cloc' = [cloc EXCEPT ![c].s = "OK"]
    /\ mu' = NoThread
    /\ UNCHANGED <<slowConsumer, overflowed, cres, delivered, msgList, next, log>>

\* Lines 486-518 with status s0 and inWait left at iw.
NFinish(c, s0, iw) ==
    LET d == IF s0 = "OK" THEN delivered + 1 ELSE delivered
        s == MaxStatus(s0, d)
        rm == RemoveSubAt(s0, d)
    IN
    /\ inWait' = iw
    /\ delivered' = d
    /\ IF s = "OK"
       THEN /\ msgList' = PopMsg(msgList, next)
            /\ next' = PopNext(msgList, next)
            /\ log' = Append(log, HeadMsg(msgList))
            /\ cres' = [cres EXCEPT ![c] = [status |-> "OK", msg |-> HeadMsg(msgList)]]
       ELSE /\ cres' = [cres EXCEPT ![c] = [status |-> s, msg |-> NULL]]
            /\ UNCHANGED <<msgList, next, log>>
    /\ cpc' = [cpc EXCEPT ![c] = IF rm THEN "remove_lock" ELSE "idle"]
    /\ cloc' = [cloc EXCEPT ![c] = NoCall]
    /\ mu' = NoThread
    /\ UNCHANGED <<slowConsumer, overflowed>>

NCheck(c) ==
    /\ cpc[c] = "check"
    /\ IF NextMsgPrecheck # "OK" THEN NFail(c, NextMsgPrecheck)
       ELSE IF cloc[c].timeout > 0
       THEN (IF CallerWaits("OK") THEN NBlocks(c, inWait + 1)
             ELSE NFinish(c, AfterWaitStatus("OK"), inWait))
       ELSE NFinish(c, NoWaitStatus, inWait)
    /\ UNCHANGED <<msgCb, refs, max, pendingMax, signalLimit, noDelay, closed,
                   connClosed, signalTimer, signalTimerInterval, signalFailCount,
                   freed, registered, created, wpc, wloc, tpc, rpc, handed, upc,
                   uloc, accepted, arming, ures, removals>>

\* The deadline passes while the caller is blocked: the timed wait will
\* return NATS_TIMEOUT once it has the mutex again.
NTimeout(c) ==
    /\ cpc[c] = "wait"
    /\ cpc' = [cpc EXCEPT ![c] = "woken"]
    /\ cloc' = [cloc EXCEPT ![c].s = "TIMEOUT"]
    /\ UNCHANGED <<subVars, created, mu, wpc, wloc, tpc, rpc, handed, cres, upc,
                   uloc, histVars>>

\* natsCondition_AbsoluteTimedWait returns: the mutex is taken again.
NWakeLock(c) ==
    /\ cpc[c] = "woken"
    /\ mu = NoThread
    /\ mu' = c
    /\ cpc' = [cpc EXCEPT ![c] = "recheck"]
    /\ UNCHANGED <<subVars, created, wpc, wloc, tpc, rpc, handed, cloc, cres, upc,
                   uloc, histVars>>

NRecheck(c) ==
    /\ cpc[c] = "recheck"
    /\ IF CallerWaits(cloc[c].s) THEN NBlocks(c, inWait)
       ELSE NFinish(c, AfterWaitStatus(cloc[c].s), inWait - 1)
    /\ UNCHANGED <<msgCb, refs, max, pendingMax, signalLimit, noDelay, closed,
                   connClosed, signalTimer, signalTimerInterval, signalFailCount,
                   freed, registered, created, wpc, wloc, tpc, rpc, handed, upc,
                   uloc, accepted, arming, ures, removals>>

\* Lines 515-516: natsConn_removeSubscription(nc, sub, true) from NextMsg.
NRemoveLock(c) ==
    /\ cpc[c] = "remove_lock"
    /\ mu = NoThread
    /\ mu' = c
    /\ cpc' = [cpc EXCEPT ![c] = "remove"]
    /\ UNCHANGED <<subVars, created, wpc, wloc, tpc, rpc, handed, cloc, cres, upc,
                   uloc, histVars>>

NRemove(c) ==
    /\ cpc[c] = "remove"
    /\ RemoveSubscription(wpc, [cpc EXCEPT ![c] = "idle"])
    /\ UNCHANGED <<msgCb, refs, msgList, next, delivered, max, pendingMax,
                   signalLimit, noDelay, inWait, slowConsumer, signalTimerInterval,
                   signalFailCount, freed, created, wloc, tpc, rpc, handed, cloc,
                   cres, upc, uloc, histVars>>

\* --------------------------------------------------------------- user thread
\* natsSubscription_NoDeliveryDelay, its lock.
UNoDelayLock ==
    /\ upc = "idle" /\ PointerValid
    /\ mu = NoThread
    /\ mu' = UserT
    /\ upc' = "nodelay"
    /\ UNCHANGED <<subVars, created, wpc, wloc, tpc, rpc, handed, cpc, cloc, cres,
                   uloc, histVars>>

\* Mutant: the timer is left running.
NoDelayTimerKept(nd, t) == t

\* Lines 393-398: natsTimer_Stop only on the first call.
NoDelayTimer(nd, t) == IF ~nd THEN TimerStop(t) ELSE t

UNoDelay ==
    /\ upc = "nodelay"
    /\ noDelay' = TRUE
    /\ signalTimer' = NoDelayTimer(noDelay, signalTimer)
    /\ mu' = NoThread
    /\ upc' = "idle"
    /\ UNCHANGED <<msgCb, refs, msgList, next, delivered, max, pendingMax,
                   signalLimit, inWait, slowConsumer, closed, connClosed,
                   signalTimerInterval, signalFailCount, freed, registered,
                   created, wpc, wloc, tpc, rpc, handed, cpc, cloc, cres, uloc,
                   histVars>>

\* natsSubscription_Unsubscribe (m = 0) and natsSubscription_AutoUnsubscribe
\* (m > 0): the lock of _unsubscribe.
UUnsubLock(m) ==
    /\ upc = "idle" /\ PointerValid
    /\ mu = NoThread
    /\ mu' = UserT
    /\ upc' = "unsub_check"
    /\ uloc' = [max |-> m, destroy |-> FALSE]
    /\ ures' = "none"
    /\ UNCHANGED <<subVars, created, wpc, wloc, tpc, rpc, handed, cpc, cloc, cres,
                   accepted, overflowed, log, arming, removals>>

\* Mutant: closed is tested before connClosed.
UnsubPrecheckClosedFirst ==
    IF closed THEN "INVALID_SUBSCRIPTION"
    ELSE IF connClosed THEN "CONNECTION_CLOSED"
    ELSE "OK"

\* Lines 532-535 of _unsubscribe.
UnsubPrecheck ==
    IF connClosed THEN "CONNECTION_CLOSED"
    ELSE IF closed THEN "INVALID_SUBSCRIPTION"
    ELSE "OK"

\* Mutant: _unsubscribe takes no reference.
RetainNone(r) == r

\* _retain(sub)
RetainRefs(r) == r + 1

\* Lines 537-546 of _unsubscribe.
UUnsubCheck ==
    /\ upc = "unsub_check"
    /\ IF UnsubPrecheck # "OK"
       THEN /\ upc' = IF uloc.destroy THEN "release_lock" ELSE "idle"
            /\ uloc' = IF uloc.destroy THEN uloc ELSE NoUser
            /\ ures' = UnsubPrecheck
            /\ UNCHANGED refs
       ELSE /\ refs' = RetainRefs(refs)
            /\ upc' = "conn_lock"
            /\ UNCHANGED <<uloc, ures>>
    /\ mu' = NoThread
    /\ UNCHANGED <<msgCb, msgList, next, delivered, max, pendingMax, signalLimit,
                   noDelay, inWait, slowConsumer, closed, connClosed, signalTimer,
                   signalTimerInterval, signalFailCount, freed, registered,
                   created, wpc, wloc, tpc, rpc, handed, cpc, cloc, cres,
                   accepted, overflowed, log, arming, removals>>

\* natsConn_unsubscribe(nc, sub, max) takes the subscription's mutex.
UConnLock ==
    /\ upc = "conn_lock"
    /\ mu = NoThread
    /\ mu' = UserT
    /\ upc' = "conn"
    /\ UNCHANGED <<subVars, created, wpc, wloc, tpc, rpc, handed, cpc, cloc, cres,
                   uloc, histVars>>

\* History of the cap: the first arming is "early" when no more than m
\* messages had been delivered, "late" otherwise; any further one is "again".
Arm(a, d, m) == IF a # "never" THEN "again" ELSE IF d <= m THEN "early" ELSE "late"

\* natsConn_unsubscribe: a non-zero max is armed, max = 0 removes at once.
UConnUnsubscribe ==
    /\ upc = "conn"
    /\ IF uloc.max > 0
       THEN /\ max' = uloc.max
            /\ arming' = Arm(arming, delivered, uloc.max)
            /\ mu' = NoThread
            /\ UNCHANGED <<signalTimer, closed, connClosed, wpc, cpc, registered,
                           removals>>
       ELSE /\ RemoveSubscription(wpc, cpc)
            /\ removals' = removals + 1
            /\ UNCHANGED <<max, arming>>
    /\ upc' = "unref_lock"
    /\ UNCHANGED <<msgCb, refs, msgList, next, delivered, pendingMax, signalLimit,
                   noDelay, inWait, slowConsumer, signalTimerInterval,
                   signalFailCount, freed, created, wloc, tpc, rpc, handed, cloc,
                   cres, uloc, accepted, overflowed, log, ures>>

\* Line 550: natsSub_release(sub), the transient reference.
UUnrefLock ==
    /\ upc = "unref_lock"
    /\ mu = NoThread
    /\ mu' = UserT
    /\ upc' = "unref"
    /\ UNCHANGED <<subVars, created, wpc, wloc, tpc, rpc, handed, cpc, cloc, cres,
                   uloc, histVars>>

UUnref ==
    /\ upc = "unref"
    /\ refs' = ReleaseRefs(refs)
    /\ freed' = FreedAfterRelease(refs, freed)
    /\ mu' = NoThread
    /\ upc' = IF uloc.destroy THEN "release_lock" ELSE "idle"
    /\ uloc' = IF uloc.destroy THEN uloc ELSE NoUser
    /\ ures' = "OK"
    /\ UNCHANGED <<msgCb, msgList, next, delivered, max, pendingMax, signalLimit,
                   noDelay, inWait, slowConsumer, closed, connClosed, signalTimer,
                   signalTimerInterval, signalFailCount, registered, created,
                   wpc, wloc, tpc, rpc, handed, cpc, cloc, cres,
                   accepted, overflowed, log, arming, removals>>

\* natsSubscription_Destroy, its lock. No NextMsg call is in progress: the
\* callers share the pointer that Destroy gives up.
UDestroyLock ==
    /\ upc = "idle" /\ PointerValid
    /\ \A c \in Callers : cpc[c] = "idle"
    /\ mu = NoThread
    /\ mu' = UserT
    /\ upc' = "destroy_check"
    /\ uloc' = [max |-> 0, destroy |-> TRUE]
    /\ UNCHANGED <<subVars, created, wpc, wloc, tpc, rpc, handed, cpc, cloc, cres,
                   histVars>>

\* Mutant: Destroy unsubscribes whatever the state.
DoUnsubAlways == TRUE

\* Line 641: doUnsub = !(sub->closed)
DoUnsub == ~closed

\* Lines 641-646: Unsubscribe is called only if doUnsub.
UDestroyCheck ==
    /\ upc = "destroy_check"
    /\ upc' = IF DoUnsub THEN "unsub_lock" ELSE "release_lock"
    /\ mu' = NoThread
    /\ UNCHANGED <<subVars, created, wpc, wloc, tpc, rpc, handed, cpc, cloc, cres,
                   uloc, histVars>>

\* Line 646: natsSubscription_Unsubscribe(sub) from Destroy, its lock.
UDestroyUnsubLock ==
    /\ upc = "unsub_lock"
    /\ mu = NoThread
    /\ mu' = UserT
    /\ upc' = "unsub_check"
    /\ ures' = "none"
    /\ UNCHANGED <<subVars, created, wpc, wloc, tpc, rpc, handed, cpc, cloc, cres,
                   uloc, accepted, overflowed, log, arming, removals>>

\* Line 648: natsSub_release(sub), the caller's reference.
UReleaseLock ==
    /\ upc = "release_lock"
    /\ mu = NoThread
    /\ mu' = UserT
    /\ upc' = "release"
    /\ UNCHANGED <<subVars, created, wpc, wloc, tpc, rpc, handed, cpc, cloc, cres,
                   uloc, histVars>>

URelease ==
    /\ upc = "release"
    /\ refs' = ReleaseRefs(refs)
    /\ freed' = FreedAfterRelease(refs, freed)
    /\ mu' = NoThread
    /\ upc' = "done"
    /\ UNCHANGED <<msgCb, msgList, next, delivered, max, pendingMax, signalLimit,
                   noDelay, inWait, slowConsumer, closed, connClosed, signalTimer,
                   signalTimerInterval, signalFailCount, registered, created,
                   wpc, wloc, tpc, rpc, handed, cpc, cloc, cres, uloc, histVars>>

\* ------------------------------------------------------------ specification
Next ==
    \/ \E cb \in BOOLEAN, nd \in BOOLEAN, pm \in PendingChoices, fail \in FailPoints :
          Create(cb, nd, pm, fail)
    \/ RLock
    \/ REnqueue
    \/ RCloseLock
    \/ RConnClose
    \/ TFireLock
    \/ TSignal
    \/ TStopLock
    \/ TStopped
    \/ WLock
    \/ WCrit
    \/ WWakeLock
    \/ WRecheck
    \/ WDeliver
    \/ WHandlerReturn
    \/ WRemoveLock
    \/ WRemove
    \/ WReleaseLock
    \/ WRelease
    \/ \E c \in Callers, t \in Timeouts : NLock(c, t)
    \/ \E c \in Callers : NCheck(c)
    \/ \E c \in Callers : NTimeout(c)
    \/ \E c \in Callers : NWakeLock(c)
    \/ \E c \in Callers : NRecheck(c)
    \/ \E c \in Callers : NRemoveLock(c)
    \/ \E c \in Callers : NRemove(c)
    \/ UNoDelayLock
    \/ UNoDelay
    \/ \E m \in 0..MaxCap : UUnsubLock(m)
    \/ UUnsubCheck
    \/ UConnLock
    \/ UConnUnsubscribe
    \/ UUnrefLock
    \/ UUnref
    \/ UDestroyLock
    \/ UDestroyCheck
    \/ UDestroyUnsubLock
    \/ UReleaseLock
    \/ URelease

Spec == Init /\ [][Next]_vars

\* The signal timer with its failing lock attempts: a fire that cannot take
\* the mutex changes signalFailCount alone, the tenth one waits for the
\* mutex. Spec leaves these out (signalFailCount stays 0 there); SpecTimer
\* adds them for a subscription on which only NextMsg is called.
NextTimer ==
    \/ \E cb \in BOOLEAN, pm \in PendingChoices : Create(cb, FALSE, pm, "none")
    \/ RLock
    \/ REnqueue
    \/ RCloseLock
    \/ RConnClose
    \/ TFireLock
    \/ TFireFail
    \/ TBlockLock
    \/ TSignal
    \/ TStopLock
    \/ TStopped
    \/ WLock
    \/ WCrit
    \/ WWakeLock
    \/ WRecheck
    \/ WDeliver
    \/ WHandlerReturn
    \/ WReleaseLock
    \/ WRelease
    \/ \E c \in Callers, t \in Timeouts : NLock(c, t)
    \/ \E c \in Callers : NCheck(c)
    \/ \E c \in Callers : NTimeout(c)
    \/ \E c \in Callers : NWakeLock(c)
    \/ \E c \in Callers : NRecheck(c)

SpecTimer == Init /\ [][NextTimer]_vars

\* An async subscription with its reader, its timer, its worker and a user
\* who may call NoDeliveryDelay, under fair scheduling: a thread inside a
\* critical section or a handler runs on, and the worker and the timer get
\* the mutex if it is free again and again.
NextLive ==
    \/ \E nd \in BOOLEAN, pm \in PendingChoices : Create(TRUE, nd, pm, "none")
    \/ RLock
    \/ REnqueue
    \/ RCloseLock
    \/ RConnClose
    \/ TFireLock
    \/ TFireFail
    \/ TBlockLock
    \/ TSignal
    \/ TStopLock
    \/ TStopped
    \/ WLock
    \/ WCrit
    \/ WWakeLock
    \/ WRecheck
    \/ WDeliver
    \/ WHandlerReturn
    \/ WReleaseLock
    \/ WRelease
    \/ UNoDelayLock
    \/ UNoDelay

Fairness ==
    /\ WF_vars(REnqueue) /\ WF_vars(RConnClose)
    /\ WF_vars(TSignal) /\ WF_vars(TStopped) /\ WF_vars(UNoDelay)
    /\ WF_vars(WCrit) /\ WF_vars(WRecheck) /\ WF_vars(WDeliver)
    /\ WF_vars(WHandlerReturn) /\ WF_vars(WRelease)
    /\ SF_vars(WLock) /\ SF_vars(WWakeLock) /\ SF_vars(WReleaseLock)
    /\ SF_vars(TFireLock) /\ SF_vars(TBlockLock) /\ SF_vars(TStopLock)

SpecLive == Init /\ [][NextLive]_vars /\ Fairness

\* ===================================================================== claims
Min(a, b) == IF a <= b THEN a ELSE b
AllMsgs == [i \in 1..MaxMsgs |-> i]
InAccepted(m) == m \in accepted
\* The accepted messages in enqueue order.
AcceptedSeq == SelectSeq(AllMsgs, InAccepted)
\* Message a is in the log before position i.
LoggedBefore(a, i) == \E j \in 1..(i - 1) : log[j] = a

\* C1, as claimed: of two messages handed to enqueue, the later one is never
\* delivered while the earlier one has not been delivered.
C1_AsClaimed ==
    \A i \in 1..Len(log) : \A a \in 1..(log[i] - 1) : LoggedBefore(a, i)

\* C1, amended: of two messages accepted by enqueue, the later one is never
\* delivered while the earlier one has not been delivered; a message that
\* enqueue rejected (overflow) is never delivered and later ones may be.
C1_AcceptedFifo ==
    /\ \A i \in 1..Len(log) : log[i] \in accepted
    /\ \A i \in 1..Len(log) : \A a \in accepted : a < log[i] => LoggedBefore(a, i)

\* C1 witness: m2 was rejected for overflow, m1 and m3 were delivered in order.
C1_Witness == log = <<1, 3>> /\ accepted = {1, 3} /\ handed = 3


\* C2, as claimed: an async subscription that ran to completion with cap
\* max > 0 had its handler invoked exactly min(max, accepted) times.
C2_AsClaimed ==
    (msgCb /\ wpc = "done" /\ closed /\ max > 0)
        => Len(log) = Min(max, Cardinality(accepted))

\* C2, amended: for an async subscription whose cap max > 0 was armed once,
\* when no more than max messages had been delivered, the handler is invoked
\* at most min(max, accepted) times, exactly max times when the worker
\* removes the subscription for having reached the cap, and (armed or not)
\* always on the first accepted messages in enqueue order.
C2_CapHonored ==
    msgCb =>
        /\ Len(log) <= Len(AcceptedSeq)
        /\ log = SubSeq(AcceptedSeq, 1, Len(log))
        /\ (max > 0 /\ arming = "early") =>
              /\ Len(log) <= Min(max, Cardinality(accepted))
              /\ (wpc \in {"remove_lock", "remove"} => Len(log) = max)

\* C2 witness: the cap 1 was armed in time, two messages were accepted, the
\* worker delivered one, removed the subscription and exited.
C2_Witness ==
    /\ msgCb /\ wpc = "done" /\ closed /\ ~connClosed /\ upc = "idle"
    /\ max = 1 /\ arming = "early" /\ delivered = 1
    /\ Len(log) = 1 /\ Cardinality(accepted) >= 2

\* C3, as claimed (its invariant): with max > 0, delivered <= max + 1.
C3_AsClaimed == (created = "ok" /\ max > 0) => delivered <= max + 1

\* The error NextMsg has to return by the order of its preconditions, "OK"
\* when none fails.
ExpectedPrecheck ==
    CASE connClosed -> "CONNECTION_CLOSED"
      [] ~connClosed /\ closed /\ max > 0 /\ delivered >= max -> "MAX_DELIVERED_MSGS"
      [] ~connClosed /\ closed /\ ~(max > 0 /\ delivered >= max) -> "INVALID_SUBSCRIPTION"
      [] ~connClosed /\ ~closed /\ msgCb -> "ILLEGAL_STATE"
      [] ~connClosed /\ ~closed /\ ~msgCb /\ slowConsumer -> "SLOW_CONSUMER"
      [] OTHER -> "OK"

\* Caller c leaves the precondition checks in this step.
LeavesCheck(c) == cpc[c] = "check" /\ cpc'[c] # "check"

\* C4: NextMsg returns the error of the first failing precondition, in the
\* order connClosed, closed (MAX_DELIVERED_MSGS or INVALID_SUBSCRIPTION),
\* handler registered, slowConsumer; it passes the checks only if none fails.
C4_PrecheckOrder ==
    [][\A c \in Callers : LeavesCheck(c) =>
          IF ExpectedPrecheck # "OK"
          THEN cres'[c].status = ExpectedPrecheck /\ cpc'[c] = "idle"
          ELSE cres'[c].status \notin
                  {"CONNECTION_CLOSED", "INVALID_SUBSCRIPTION", "ILLEGAL_STATE",
                   "SLOW_CONSUMER"}]_vars

\* C4 witness: NextMsg on a closed async subscription (not closed by the
\* connection, cap not reached) returned INVALID_SUBSCRIPTION.
C4_Witness ==
    \E c \in Callers :
        /\ cres[c].status = "INVALID_SUBSCRIPTION" /\ cpc[c] = "idle"
        /\ msgCb /\ closed /\ ~connClosed /\ slowConsumer = FALSE

\* C5: on an open sync subscription with slowConsumer set, NextMsg returns
\* SLOW_CONSUMER, clears the flag and touches neither the list nor delivered;
\* SLOW_CONSUMER is returned only if an enqueue overflowed since the last
\* SLOW_CONSUMER return.
C5_SlowOnce ==
    [][\A c \in Callers : LeavesCheck(c) =>
          /\ (~connClosed /\ ~closed /\ ~msgCb /\ slowConsumer) =>
                /\ cres'[c].status = "SLOW_CONSUMER"
                /\ ~slowConsumer'
                /\ msgList' = msgList /\ next' = next /\ delivered' = delivered
          /\ cres'[c].status = "SLOW_CONSUMER" => overflowed]_vars

\* C5 witness: pendingMax = 2, m1 m2 m3 were enqueued with nothing popped
\* (m3 overflowed), and the calls since returned SLOW_CONSUMER, m1, m2 and
\* now TIMEOUT.
C5_Witness ==
    \E c \in Callers :
        /\ pendingMax = 2 /\ handed = 3 /\ accepted = {1, 2}
        /\ log = <<1, 2>> /\ ~slowConsumer /\ ~overflowed
        /\ cres[c].status = "TIMEOUT" /\ ~closed /\ max = 0


\* C6, as claimed (its last clause): a NextMsg started after the connection
\* closed the subscription returns CONNECTION_CLOSED.
C6_AsClaimed ==
    [][\A c \in Callers : (LeavesCheck(c) /\ rpc = "done") =>
          cres'[c].status = "CONNECTION_CLOSED"]_vars

\* C6, the part that holds: once closed, nobody is blocked in the wait, and
\* a NextMsg caller that wakes up closed returns INVALID_SUBSCRIPTION and
\* leaves the queued messages alone.
C6_WaitersCancelled ==
    [][/\ closed' => (wpc' # "wait" /\ \A c \in Callers : cpc'[c] # "wait")
       /\ \A c \in Callers : (cpc[c] = "recheck" /\ closed) =>
             /\ cres'[c].status = "INVALID_SUBSCRIPTION" /\ cpc'[c] = "idle"
             /\ msgList' = msgList /\ delivered' = delivered
       /\ (wpc = "recheck" /\ closed) =>
             (wpc' = "release_lock" /\ msgList' = msgList /\ delivered' = delivered)]_vars

\* Caller c returns TIMEOUT in this step.
ReturnsTimeout(c) ==
    /\ cpc[c] \in {"check", "recheck"} /\ cpc'[c] = "idle"
    /\ cres'[c].status = "TIMEOUT"

\* C7, as claimed: when NextMsg returns TIMEOUT the list is empty.
C7_AsClaimed ==
    [][\A c \in Callers : ReturnsTimeout(c) => msgList'.count = 0]_vars

\* C7, amended: with timeout <= 0 NextMsg returns TIMEOUT only with an empty
\* list; with timeout > 0 it enters the wait only with an empty list and
\* returns TIMEOUT only once its timed wait has expired, also when a message
\* was enqueued before it took the mutex again; a TIMEOUT return removes no
\* message and does not count as a delivery.
C7_TimeoutAfterExpiry ==
    [][\A c \in Callers :
          /\ ReturnsTimeout(c) =>
                /\ \/ /\ cpc[c] = "check" /\ cloc[c].timeout <= 0
                      /\ msgList.count = 0 /\ msgList'.count = 0
                   \/ /\ cpc[c] = "recheck" /\ cloc[c].timeout > 0
                      /\ cloc[c].s = "TIMEOUT"
                /\ msgList' = msgList /\ delivered' = delivered
          /\ (cpc[c] # "wait" /\ cpc'[c] = "wait") => msgList.count = 0]_vars

\* C7 witness: a caller whose timed wait expired holds the mutex again while
\* a message is queued on the open subscription.
C7_Witness ==
    \E c \in Callers :
        /\ cpc[c] = "recheck" /\ cloc[c].s = "TIMEOUT"
        /\ msgList.count > 0 /\ ~closed

\* The reader finishes an enqueue in this step.
EnqueueDone == rpc = "enqueue" /\ rpc' = "idle"

\* C8: count never exceeds pendingMax; an enqueue at count >= pendingMax sets
\* slowConsumer and leaves the list as it is; an enqueue on a closed
\* subscription leaves the list and slowConsumer as they are.
C8_BoundedDropNewest ==
    [][/\ created' = "ok" => msgList'.count <= pendingMax'
       /\ (EnqueueDone /\ closed) =>
             /\ msgList' = msgList /\ next' = next
             /\ slowConsumer' = slowConsumer /\ accepted' = accepted
       /\ (EnqueueDone /\ ~closed /\ msgList.count >= pendingMax) =>
             /\ msgList' = msgList /\ next' = next
             /\ slowConsumer' /\ accepted' = accepted]_vars

\* C8 witness: m3 was dropped at count = pendingMax = 2, m1 and m2 are
\* still queued in order.
C8_Witness ==
    /\ pendingMax = 2 /\ handed = 3 /\ slowConsumer /\ accepted = {1, 2}
    /\ msgList = [head |-> 1, tail |-> 2, count |-> 2] /\ Queue = <<1, 2>>

\* The references that are held: the creator's until Destroy released it,
\* the worker's until it exited, the timer's until its stop callback ran,
\* and the transient one of _unsubscribe.
HeldRefs ==
    (IF upc # "done" THEN 1 ELSE 0)
    + (IF wpc \notin {"none", "done"} THEN 1 ELSE 0)
    + (IF signalTimer \in {"active", "stopping"} THEN 1 ELSE 0)
    + (IF upc \in {"conn_lock", "conn", "unref_lock", "unref"} THEN 1 ELSE 0)

\* C9: for a created subscription refs counts exactly the references held,
\* and the subscription is destroyed once, exactly when refs is zero: not
\* while the worker or the timer still holds its reference.
C9_Refcount ==
    created = "ok" =>
        /\ refs = HeldRefs
        /\ freed = (IF refs = 0 THEN 1 ELSE 0)

\* C9 witness: an async subscription whose timer was stopped by
\* NoDeliveryDelay and by close has been destroyed.
C9_Witness ==
    /\ created = "ok" /\ freed = 1 /\ msgCb /\ wpc = "done"
    /\ noDelay /\ closed /\ signalTimer = "stopped"

\* C10, as claimed: a failed create leaves refs at zero, the subscription
\* destroyed and no timer running.
C10_AsClaimed ==
    created = "failed" => (refs = 0 /\ freed = 1 /\ signalTimer # "active")

\* The status _unsubscribe has to return by its two checks, "OK" when both pass.
ExpectedUnsub ==
    CASE connClosed -> "CONNECTION_CLOSED"
      [] ~connClosed /\ closed -> "INVALID_SUBSCRIPTION"
      [] OTHER -> "OK"

\* The user thread leaves the checks of _unsubscribe in this step.
LeavesUnsubCheck == upc = "unsub_check" /\ upc' # "unsub_check"

\* C11: _unsubscribe (Unsubscribe, AutoUnsubscribe) fails with
\* CONNECTION_CLOSED when connClosed is set and with INVALID_SUBSCRIPTION when
\* the subscription is closed otherwise, without calling the connection and
\* leaving refs, max, closed, msgList and delivered as they are; on the
\* success path it takes one reference before the connection call and
\* releases it once on return, and no other step of the call changes refs.
C11_UnsubscribeChecks ==
    [][/\ (LeavesUnsubCheck /\ ExpectedUnsub # "OK") =>
             /\ ures' = ExpectedUnsub
             /\ upc' \notin {"conn_lock", "conn", "unref_lock", "unref"}
             /\ refs' = refs /\ max' = max /\ closed' = closed
             /\ connClosed' = connClosed /\ registered' = registered
             /\ msgList' = msgList /\ delivered' = delivered
             /\ removals' = removals /\ arming' = arming
       /\ (LeavesUnsubCheck /\ ExpectedUnsub = "OK") =>
             (upc' = "conn_lock" /\ refs' = refs + 1 /\ ures' = "none")
       /\ (upc = "unref" /\ upc' # "unref") =>
             (refs' = refs - 1 /\ ures' = "OK" /\ upc' \in {"idle", "release_lock"})
       /\ (upc \in {"conn_lock", "conn", "unref_lock"} /\ upc' # upc) =>
             (refs' = refs /\ upc' \in {"conn", "unref_lock", "unref"})]_vars

\* C11 witness: an Unsubscribe on a subscription closed by the connection,
\* with a message still queued, returned CONNECTION_CLOSED.
C11_Witness ==
    /\ ures = "CONNECTION_CLOSED" /\ upc = "idle" /\ connClosed /\ closed
    /\ msgList.count > 0 /\ refs > 0 /\ removals = 0

\* The user thread takes a step of its own.
UserStep == upc' # upc

\* C12: Destroy on a closed subscription (as after Unsubscribe) only releases
\* the caller's reference and does not call the connection; Destroy on an
\* open one runs Unsubscribe and then releases the reference, so both
\* sequences end closed, out of the registry, with the caller's reference
\* released once; the connection is asked to remove the subscription at most
\* once in a run, by an Unsubscribe whose checks passed.
C12_DestroyAfterUnsubscribe ==
    [][/\ (upc = "destroy_check" /\ UserStep) =>
             /\ upc' = (IF closed THEN "release_lock" ELSE "unsub_lock")
             /\ removals' = removals /\ refs' = refs /\ closed' = closed
       /\ (upc = "unsub_lock" /\ UserStep) =>
             (upc' = "unsub_check" /\ uloc'.max = 0 /\ uloc'.destroy)
       /\ (uloc.destroy /\ upc \in {"unsub_check", "unref"} /\ UserStep
             /\ upc' \notin {"conn_lock"}) => upc' = "release_lock"
       /\ (removals' # removals) =>
             /\ removals = 0 /\ removals' = 1
             /\ upc = "conn" /\ uloc.max = 0
             /\ closed' /\ ~registered'
       /\ (upc = "conn" /\ UserStep /\ uloc.max = 0) => removals' = removals + 1
       /\ (upc = "release_lock" /\ UserStep) => (upc' = "release" /\ closed)
       /\ (upc = "release" /\ UserStep) =>
             /\ upc' = "done" /\ refs' = refs - 1
             /\ closed' /\ ~registered' /\ removals' = removals]_vars

\* C12 witness: Destroy is called after an Unsubscribe that removed the
\* subscription, and is about to read closed.
C12_Witness ==
    /\ upc = "destroy_check" /\ closed /\ ~connClosed /\ ures = "OK"
    /\ removals = 1 /\ ~registered /\ max = 0

\* The user thread finishes a NoDeliveryDelay call in this step.
NoDelayDone == upc = "nodelay" /\ UserStep

\* C13: a NoDeliveryDelay call leaves noDelay true and the signal timer not
\* running; a call on a subscription that is already in noDelay mode changes
\* no field of the subscription; no call changes refs, and the timer's
\* reference is released once, by its stop callback, after which the timer
\* stays stopped.
C13_NoDelayIdempotent ==
    [][/\ NoDelayDone =>
             /\ noDelay' /\ signalTimer' # "active" /\ upc' = "idle"
             /\ noDelay => signalTimer' = signalTimer
             /\ <<msgCb, refs, msgList, next, delivered, max, pendingMax,
                  signalLimit, inWait, slowConsumer, closed, connClosed,
                  signalTimerInterval, signalFailCount, freed, registered>>' =
                <<msgCb, refs, msgList, next, delivered, max, pendingMax,
                  signalLimit, inWait, slowConsumer, closed, connClosed,
                  signalTimerInterval, signalFailCount, freed, registered>>
             /\ wpc' = wpc /\ cpc' = cpc
       /\ (created = "ok" /\ noDelay) => (noDelay' /\ signalTimer' # "active")
       /\ signalTimer = "stopped" => signalTimer' = "stopped"
       /\ (signalTimer # "stopped" /\ signalTimer' = "stopped") =>
             (signalTimer = "stopping" /\ refs' = refs - 1)]_vars

\* C13 witness: a second NoDeliveryDelay call holds the mutex after the first
\* one stopped the timer and the stop callback released its reference.
C13_Witness ==
    /\ upc = "nodelay" /\ noDelay /\ signalTimer = "stopped" /\ ~closed
    /\ refs > 0

\* The last n elements of sequence q.
Suffix(q, n) == SubSeq(q, Len(q) - n + 1, Len(q))

\* C14: whenever the mutex is free, the nodes reachable from head are the
\* last count messages accepted by enqueue, in order (those not popped yet),
\* tail is the last of them, and head and tail are NULL exactly when count
\* is 0.
C14_QueueWellFormed ==
    (created = "ok" /\ freed = 0 /\ mu = NoThread) =>
        /\ msgList.count \in 0..Len(AcceptedSeq)
        /\ Len(Queue) = msgList.count
        /\ Queue = Suffix(AcceptedSeq, msgList.count)
        /\ (msgList.tail = NULL) <=> (msgList.count = 0)
        /\ (msgList.head = NULL) <=> (msgList.count = 0)
        /\ msgList.count > 0 =>
              /\ Queue[Len(Queue)] = msgList.tail
              /\ next[msgList.tail] = NULL

\* C14 witness: three messages were enqueued, the first was popped and
\* delivered, the other two are queued.
C14_Witness ==
    /\ mu = NoThread /\ accepted = {1, 2, 3} /\ log = <<1>>
    /\ msgList = [head |-> 2, tail |-> 3, count |-> 2] /\ Queue = <<2, 3>>

\* The positions at which each thread is inside a critical section.
WorkerCritical == {"crit", "recheck", "remove", "release"}
CallerCritical == {"check", "recheck", "remove"}
UserCritical == {"nodelay", "unsub_check", "conn", "unref", "destroy_check", "release"}
ReaderCritical == {"enqueue", "connclose"}
TimerCritical == {"locked", "release"}

\* C15: a thread holds the mutex exactly while it is inside one of its
\* critical sections: never while the handler is being invoked, while it is
\* blocked in a wait, or when it enters a connection call (which takes the
\* mutex itself); while a handler runs the reader can take the mutex as soon
\* as it is free; a handler invocation starts only when none is running.
C15_LockDiscipline ==
    /\ (mu = WorkerT) <=> (wpc \in WorkerCritical)
    /\ \A c \in Callers : (mu = c) <=> (cpc[c] \in CallerCritical)
    /\ (mu = UserT) <=> (upc \in UserCritical)
    /\ (mu = ReaderT) <=> (rpc \in ReaderCritical)
    /\ (mu = TimerT) <=> (tpc \in TimerCritical)
    /\ wpc \in {"deliver", "handler", "remove_lock", "wait", "woken"} => mu # WorkerT
    /\ \A c \in Callers : cpc[c] \in {"remove_lock", "wait", "woken"} => mu # c
    /\ upc \in {"conn_lock", "unref_lock", "unsub_lock"} => mu # UserT
    /\ (wpc = "handler" /\ mu = NoThread /\ rpc = "idle") =>
          /\ created = "ok" /\ freed = 0
          /\ handed < MaxMsgs => ENABLED RLock
          /\ registered => ENABLED RCloseLock
    /\ wpc = "handler" => (msgCb /\ wloc.msg = log[Len(log)])

\* C15 witness: the reader holds the mutex for an enqueue while the handler
\* is running.
C15_Witness ==
    /\ wpc = "handler" /\ mu = ReaderT /\ rpc = "enqueue" /\ msgList.count > 0

\* The fields a timer fire must leave alone whatever it does.
TimerFrame == <<msgCb, refs, msgList, next, delivered, max, pendingMax,
                signalLimit, noDelay, inWait, slowConsumer, closed, connClosed,
                signalTimer, freed, registered>>

\* A timer fire fails to take the mutex in this step.
FireFails == tpc = "idle" /\ (signalFailCount' # signalFailCount \/ tpc' = "block")

\* A timer fire runs its critical section in this step.
FireSignals == tpc = "locked" /\ tpc' # "locked"

\* C16: signalFailCount stays in 0..9; a fire that fails to take the mutex
\* only increments signalFailCount and returns, but the tenth failure since
\* the last reset sets it to 0 and waits for the mutex; a fire that holds the
\* mutex sets the interval to 10000 when count is 0, wakes the waiters when
\* count > 0 and inWait > 0, and changes nothing else.
C16_BoundedRetry ==
    [][/\ signalFailCount' \in 0..9
       /\ FireFails =>
             /\ mu # NoThread /\ mu' = mu
             /\ TimerFrame' = TimerFrame
             /\ signalTimerInterval' = signalTimerInterval
             /\ wpc' = wpc /\ cpc' = cpc
             /\ IF signalFailCount = 9
                THEN signalFailCount' = 0 /\ tpc' = "block"
                ELSE signalFailCount' = signalFailCount + 1 /\ tpc' = "idle"
       /\ (tpc = "block" /\ tpc' # "block") =>
             (mu = NoThread /\ mu' = TimerT /\ tpc' = "locked"
              /\ signalFailCount' = 0)
       /\ FireSignals =>
             /\ TimerFrame' = TimerFrame
             /\ signalFailCount' = signalFailCount
             /\ mu = TimerT /\ mu' = NoThread /\ tpc' = "idle"
             /\ msgList.count = 0 =>
                   /\ signalTimerInterval' = 10000
                   /\ wpc' = wpc /\ cpc' = cpc
             /\ (msgList.count > 0 /\ inWait > 0) =>
                   /\ wpc' = (IF wpc = "wait" THEN "woken" ELSE wpc)
                   /\ \A c \in Callers :
                         cpc'[c] = (IF cpc[c] = "wait" THEN "woken" ELSE cpc[c])
                   /\ signalTimerInterval' = signalTimerInterval
             /\ (msgList.count > 0 /\ inWait = 0) =>
                   /\ wpc' = wpc /\ cpc' = cpc
                   /\ signalTimerInterval' = signalTimerInterval]_vars

\* C16 witness: after the tenth failed attempt the counter is back at 0 and
\* the fire waits for the mutex, which another thread holds.
C16_Witness ==
    /\ tpc = "block" /\ signalFailCount = 0 /\ mu # NoThread /\ mu # TimerT
    /\ signalTimer = "active"

\* Message m is in the list.
Queued(m) == \E i \in 1..Len(Queue) : Queue[i] = m

\* C17: under SpecLive's fairness, every message accepted by enqueue on an
\* async subscription is eventually popped by the worker unless the
\* subscription is closed, with the timer running as well as after
\* NoDeliveryDelay; and the worker does not stay blocked in the wait while a
\* message is queued and the subscription is open.
C17_DeliveryLiveness ==
    /\ \A m \in Msgs : (m \in accepted) ~> (closed \/ ~Queued(m))
    /\ (wpc \in {"wait", "woken"} /\ msgList.count > 0)
          ~> (closed \/ wpc \notin {"wait", "woken"})

\* C17 witness: the timer was stopped by NoDeliveryDelay and its stop
\* callback ran; three messages were accepted and delivered, the
\* subscription is open and the worker waits again.
C17_Witness ==
    /\ msgCb /\ noDelay /\ signalTimer = "stopped" /\ ~closed
    /\ accepted = {1, 2, 3} /\ log = <<1, 2, 3>> /\ wpc = "wait"

\* C18: closed never becomes false again; once it is true no message is
\* appended to or popped from the list and delivered does not change; the
\* only delivery that can still happen is the handler invocation for the
\* message the worker popped before the close, and the worker never reaches
\* another one.
C18_ClosedFreezes ==
    [][closed =>
          /\ closed'
          /\ msgList' = msgList /\ next' = next
          /\ delivered' = delivered /\ accepted' = accepted
          /\ log' # log =>
                /\ wpc = "deliver" /\ wpc' = "handler"
                /\ log' = Append(log, wloc.msg)
          /\ wpc # "deliver" => wpc' # "deliver"
          /\ \A c \in Callers :
                (cpc[c] \in {"check", "recheck"} /\ cpc'[c] # cpc[c]) =>
                    (cres'[c].msg = NULL /\ cres'[c].status # "OK")]_vars

\* C18 witness: the subscription was closed while the handler runs for a
\* message popped before, and another message is left in the list.
C18_Witness ==
    /\ closed /\ wpc = "handler" /\ msgList.count > 0 /\ delivered = 1
    /\ log = <<1>>


\* C19: delivered is the number of messages handed to the consumer, that is
\* the number of handler invocations started (a message the worker has popped
\* and is about to hand over counted with them) or of NextMsg calls that
\* returned a message.
C19_AsClaimed ==
    delivered = Len(log) + (IF wpc = "deliver" THEN 1 ELSE 0)


\* C20: connClosed is sticky: once it is true it is true in every later
\* state, also across a later close with connectionClosed = false.
C20_AsClaimed ==
    [][connClosed => connClosed']_vars

=============================================================================
